---- MODULE Spec2Model ----
(***************************************************************************)
(* The quiz-attempt ledger of quizmaker-app: lib/services/attempt-service  *)
(* (startQuizAttempt, submitAnswer, submitQuizAttempt, getCompleteAttempt, *)
(* abandonAttempt) over the D1 tables of the schema migration, with the    *)
(* catalog operations of the quiz service that change what the ledger      *)
(* reads.  Every awaited D1 statement is one atomic store step; a request  *)
(* is a process that runs its statements in program order.                 *)
(***************************************************************************)
EXTENDS Integers, Sequences, FiniteSets, TLC

\* ------------------------------------------------------------------ bounds
NProcs == 2                \* request slots that may be in flight together
MaxAttempts == 2           \* attempt rows ever inserted in one behaviour
MaxReattempts == 3         \* the same, where students only start, submit and abandon
MaxCatalogAttempts == 1    \* the same, where the instructor edits the quiz meanwhile
MaxQuestions == 4          \* question rows ever inserted in one behaviour
MaxNow == 1000             \* the clock stops advancing here (milliseconds)

Procs == 1..NProcs
Students == {"s1", "s2"}
QuizIds == {"qz1", "qz2", "qz3"}
TickSteps == {500, 1000}
PointValues == {1, 5}

\* SQL NULL, and a present value; a row lookup returns <<>> or <<row>>.
NULL == <<>>
Some(v) == <<v>>
Val(x) == x[1]

\* What a caller may pass as selectedOptionId: an option id, or null (a skip).
\* submitAnswerSchema admits a UUID or null, never the empty string, so
\* if (selectedOptionId) is taken exactly when the value is not null.
OptionChoices == {NULL} \cup {Some(o) : o \in 1..3}

\* ------------------------------------------------------------------ state
VARIABLES
  quizzes,        \* table quizzes:         id -> [is_published]
  questions,      \* table questions:       id -> [quiz_id, points]
  options,        \* table answer_options:  id -> [question_id, is_correct]
  attempts,       \* table quiz_attempts:   id -> row
  answers,        \* table attempt_answers: id -> row
  nextAttemptId,  \* ids handed out so far by generateId for attempts, plus one
  nextQuestionId, \* the same for questions
  nextOptionId,   \* the same for answer options
  now,            \* Date.now()
  req             \* the requests: per slot, the handler, its position and locals

vars == <<quizzes, questions, options, attempts, answers,
          nextAttemptId, nextQuestionId, nextOptionId, now, req>>

store == <<quizzes, questions, options, attempts, answers>>
catalog == <<quizzes, questions, options>>
ids == <<nextAttemptId, nextQuestionId, nextOptionId>>

\* ------------------------------------------------------------- d1-client
toBool(value) == value = 1

fromBool(value) == IF value THEN 1 ELSE 0

\* ------------------------------------------------------------- requests
Idle ==
  [op |-> "none", pc |-> "idle", res |-> "none",
   studentId |-> NULL, quizId |-> NULL, attemptId |-> NULL,
   questionId |-> NULL, selectedOptionId |-> NULL,
   attempt |-> NULL, question |-> NULL,
   isCorrect |-> FALSE, pointsEarned |-> 0,
   existingAnswer |-> NULL, scoreData |-> NULL, ret |-> NULL]

\* A slot can take a new call when its previous call has returned.
Free(p) == req[p].pc \in {"idle", "done"}

\* No call is in flight: operations run one at a time.
Quiet == \A p \in Procs : Free(p)

\* The handler returns (res = "ok") or throws (the error kind): what remains
\* of the call is its arguments and what it gave back; its locals are gone.
Return(r, kind) ==
  [Idle EXCEPT !.op = r.op, !.pc = "done", !.res = kind,
               !.studentId = r.studentId, !.quizId = r.quizId,
               !.attemptId = r.attemptId, !.questionId = r.questionId,
               !.selectedOptionId = r.selectedOptionId, !.ret = r.ret]

Goto(r, label) == [r EXCEPT !.pc = label]

Set(p, r) == req' = [req EXCEPT ![p] = r]

\* ------------------------------------------------------------------ init
\* The database after the migrations and the instructors' authoring: two
\* published quizzes, qz1 with two 5-point questions and qz2 with one 1-point
\* question, every question with one correct and one incorrect option; no
\* attempts yet.  qz3 does not exist.
Init ==
  /\ quizzes = [z \in {"qz1", "qz2"} |-> [is_published |-> 1]]
  /\ questions = (1 :> [quiz_id |-> "qz1", points |-> 5])
              @@ (2 :> [quiz_id |-> "qz1", points |-> 5])
              @@ (3 :> [quiz_id |-> "qz2", points |-> 1])
  /\ options = [o \in 1..6 |->
                  [question_id |-> (o + 1) \div 2,
                   is_correct |-> fromBool(o % 2 = 1)]]
  /\ attempts = <<>>
  /\ answers = <<>>
  /\ nextAttemptId = 1
  /\ nextQuestionId = 4
  /\ nextOptionId = 7
  /\ now = 0
  /\ req = [p \in Procs |-> Idle]

\* ------------------------------------------------- startQuizAttempt
\* Mutant of NewAttemptRow: started_at is not taken from the clock.
NewAttemptRowNoClock(studentId, quizId, startedAt) ==
  [student_id |-> studentId, quiz_id |-> quizId,
   score |-> NULL, points_earned |-> NULL, total_points |-> NULL,
   started_at |-> 0, submitted_at |-> NULL,
   duration_seconds |-> NULL, is_completed |-> fromBool(FALSE)]

\* An attempt row as startQuizAttempt inserts it.
NewAttemptRow(studentId, quizId, startedAt) ==
  [student_id |-> studentId, quiz_id |-> quizId,
   score |-> NULL, points_earned |-> NULL, total_points |-> NULL,
   started_at |-> startedAt, submitted_at |-> NULL,
   duration_seconds |-> NULL, is_completed |-> fromBool(FALSE)]

\* Mutant of IncompleteAttempts: the query misses AND is_completed = 0.
IncompleteAttemptsAnyState(studentId, quizId) ==
  {a \in DOMAIN attempts :
     /\ attempts[a].student_id = studentId
     /\ attempts[a].quiz_id = quizId}

\* SELECT * FROM quiz_attempts WHERE student_id = ? AND quiz_id = ? AND is_completed = 0
IncompleteAttempts(studentId, quizId) ==
  {a \in DOMAIN attempts :
     /\ attempts[a].student_id = studentId
     /\ attempts[a].quiz_id = quizId
     /\ attempts[a].is_completed = fromBool(FALSE)}

\* Ids generateId can still hand out to the starts that are past their checks.
AttemptIdsLeft(limit) ==
  limit - (nextAttemptId - 1)
    - Cardinality({p \in Procs : req[p].pc \in {"start_check", "start_insert"}})

\* SELECT id, is_published FROM quizzes WHERE id = ?
QuizById(quizId) ==
  IF quizId \in DOMAIN quizzes THEN Some(quizzes[quizId]) ELSE NULL

\* Mutant of StartPrecondition: the publication check is missing.
StartPreconditionNoPublishCheck(quiz) ==
  IF quiz = NULL THEN "NotFound" ELSE "ok"

\* if (!quiz) throw ...; if (!toBool(quiz.is_published)) throw ...
StartPrecondition(quiz) ==
  IF quiz = NULL THEN "NotFound"
  ELSE IF ~toBool(Val(quiz).is_published) THEN "NotPublished"
  ELSE "ok"

\* The call, and its first statement: the quiz.
StartGetQuiz(p, studentId, quizId, limit) ==
  /\ Free(p)
  /\ AttemptIdsLeft(limit) > 0
  /\ LET r == [Idle EXCEPT !.op = "start", !.studentId = Some(studentId),
                           !.quizId = Some(quizId)]
         quiz == QuizById(quizId)
     IN  Set(p, IF StartPrecondition(quiz) # "ok"
                THEN Return(r, StartPrecondition(quiz))
                ELSE Goto(r, "start_check"))
  /\ UNCHANGED <<store, ids, now>>

\* SELECT the student's incomplete attempt for the quiz.
StartCheckIncomplete(p) ==
  /\ req[p].pc = "start_check"
  /\ LET r == req[p]
     IN  Set(p, IF IncompleteAttempts(Val(r.studentId), Val(r.quizId)) # {}
                THEN Return(r, "Conflict")
                ELSE Goto(r, "start_insert"))
  /\ UNCHANGED <<store, ids, now>>

\* INSERT INTO quiz_attempts; the quiz_id foreign key rejects a deleted quiz.
StartInsert(p) ==
  /\ req[p].pc = "start_insert"
  /\ LET r == req[p]
     IN  IF Val(r.quizId) \notin DOMAIN quizzes
         THEN /\ Set(p, Return(r, "StorageError"))
              /\ UNCHANGED <<attempts, nextAttemptId>>
         ELSE /\ attempts' = attempts @@
                   (nextAttemptId :>
                      NewAttemptRow(Val(r.studentId), Val(r.quizId), now))
              /\ nextAttemptId' = nextAttemptId + 1
              /\ Set(p, Goto([r EXCEPT !.attemptId = Some(nextAttemptId)],
                             "start_read"))
  /\ UNCHANGED <<catalog, answers, nextQuestionId, nextOptionId, now>>

\* SELECT * FROM quiz_attempts WHERE id = ?, and return the row.
StartReadBack(p) ==
  /\ req[p].pc = "start_read"
  /\ LET r == req[p]
     IN  Set(p, IF Val(r.attemptId) \notin DOMAIN attempts
                THEN Return(r, "Failed")
                ELSE Return([r EXCEPT !.ret =
                                        Some(attempts[Val(r.attemptId)])], "ok"))
  /\ UNCHANGED <<store, ids, now>>

\* ------------------------------------------------------- submitAnswer
\* SELECT * FROM attempt_answers WHERE attempt_id = ? AND question_id = ?
AnswersFor(attemptId, questionId) ==
  {i \in DOMAIN answers :
     answers[i].attempt_id = attemptId /\ answers[i].question_id = questionId}

\* generateId for an answer row.  A row leaves the table only with its attempt
\* or its question, whose ids are never handed out again, so the triple
\* (attempt, question, ordinal among the rows of that pair) is an id that no
\* other row has or ever had.
FreshAnswerId(attemptId, questionId) ==
  <<attemptId, questionId, Cardinality(AnswersFor(attemptId, questionId)) + 1>>

\* Mutant of FirstAnswerFor: the query misses AND question_id = ?.
FirstAnswerOfAttempt(attemptId, questionId) ==
  IF {i \in DOMAIN answers : answers[i].attempt_id = attemptId} = {} THEN NULL
  ELSE LET i == CHOOSE k \in DOMAIN answers : answers[k].attempt_id = attemptId
       IN  Some([id |-> i, row |-> answers[i]])

\* executeQueryFirst over that query: the first row, with its id, or null.
FirstAnswerFor(attemptId, questionId) ==
  IF AnswersFor(attemptId, questionId) = {} THEN NULL
  ELSE LET i == CHOOSE k \in AnswersFor(attemptId, questionId) :
                  \A m \in AnswersFor(attemptId, questionId) : k[3] <= m[3]
       IN  Some([id |-> i, row |-> answers[i]])

\* Mutant of PointsFor: the question's points whatever the option's flag.
PointsForAnySelection(isCorrect, points) == points

\* pointsEarned = isCorrect ? question.points : 0
PointsFor(isCorrect, points) == IF isCorrect THEN points ELSE 0

\* The columns an answer row gets from submitAnswer's INSERT or UPDATE.
AnswerRow(attemptId, questionId, selectedOptionId, isCorrect, pointsEarned, answeredAt) ==
  [attempt_id |-> attemptId, question_id |-> questionId,
   selected_option_id |-> selectedOptionId,
   is_correct |-> fromBool(isCorrect), points_earned |-> pointsEarned,
   answered_at |-> answeredAt]

\* Mutant of AnswerInsertAccepted: the table declares no foreign key.
AnswerInsertAcceptedNoForeignKeys(row) ==
  AnswersFor(row.attempt_id, row.question_id) = {}

\* The foreign keys and the UNIQUE (attempt_id, question_id) of
\* attempt_answers accept this row as a new row.
AnswerInsertAccepted(row) ==
  /\ row.attempt_id \in DOMAIN attempts
  /\ row.question_id \in DOMAIN questions
  /\ row.selected_option_id = NULL
     \/ Val(row.selected_option_id) \in DOMAIN options
  /\ AnswersFor(row.attempt_id, row.question_id) = {}

\* Mutant of AnswerPrecondition: the completion check is missing.
AnswerPreconditionNoStateCheck(attempt) ==
  IF attempt = NULL THEN "NotFound" ELSE "ok"

\* if (!attempt) throw ...; if (toBool(attempt.is_completed)) throw ...
AnswerPrecondition(attempt) ==
  IF attempt = NULL THEN "NotFound"
  ELSE IF toBool(Val(attempt).is_completed) THEN "InvalidState"
  ELSE "ok"

\* SELECT * FROM quiz_attempts WHERE id = ?
AttemptById(attemptId) ==
  IF attemptId \in DOMAIN attempts THEN Some(attempts[attemptId]) ELSE NULL

\* The call, and its first statement: the attempt, whoever owns it.  principal
\* is the authenticated student the request is made for, or NULL where the
\* model does not follow it; submitAnswer is not given it and the slot only
\* remembers it.
AnswerGetAttemptFor(p, principal, attemptId, questionId, selectedOptionId) ==
  /\ Free(p)
  /\ LET r == [Idle EXCEPT !.op = "answer", !.studentId = principal,
                           !.attemptId = Some(attemptId),
                           !.questionId = Some(questionId),
                           !.selectedOptionId = selectedOptionId]
         a == AttemptById(attemptId)
     IN  Set(p, IF AnswerPrecondition(a) # "ok"
                THEN Return(r, AnswerPrecondition(a))
                ELSE Goto([r EXCEPT !.attempt = a], "answer_question"))
  /\ UNCHANGED <<store, ids, now>>

AnswerGetAttempt(p, attemptId, questionId, selectedOptionId) ==
  AnswerGetAttemptFor(p, NULL, attemptId, questionId, selectedOptionId)

\* Mutant of QuestionOfQuiz: any existing question passes.
QuestionOfAnyQuiz(questionId, quizId) ==
  questionId \in DOMAIN questions

\* !(!question || question.quiz_id !== attempt.quiz_id)
QuestionOfQuiz(questionId, quizId) ==
  /\ questionId \in DOMAIN questions
  /\ questions[questionId].quiz_id = quizId

\* !(!option || option.question_id !== questionId)
OptionOfQuestion(optionId, questionId) ==
  /\ optionId \in DOMAIN options
  /\ options[optionId].question_id = questionId

\* SELECT id, quiz_id, points FROM questions WHERE id = ?
AnswerGetQuestion(p) ==
  /\ req[p].pc = "answer_question"
  /\ LET r == req[p]
         q == Val(r.questionId)
     IN  Set(p, IF ~QuestionOfQuiz(q, Val(r.attempt).quiz_id)
                THEN Return(r, "Validation")
                ELSE Goto([r EXCEPT !.question = Some(questions[q])],
                          IF r.selectedOptionId # NULL THEN "answer_option"
                          ELSE "answer_existing"))
  /\ UNCHANGED <<store, ids, now>>

\* SELECT id, question_id, is_correct FROM answer_options WHERE id = ?
AnswerGetOption(p) ==
  /\ req[p].pc = "answer_option"
  /\ LET r == req[p]
         o == Val(r.selectedOptionId)
     IN  Set(p, IF ~OptionOfQuestion(o, Val(r.questionId))
                THEN Return(r, "Validation")
                ELSE Goto([r EXCEPT
                             !.isCorrect = toBool(options[o].is_correct),
                             !.pointsEarned =
                                PointsFor(toBool(options[o].is_correct),
                                          Val(r.question).points)],
                          "answer_existing"))
  /\ UNCHANGED <<store, ids, now>>

\* SELECT the existing answer of (attempt, question).
AnswerGetExisting(p) ==
  /\ req[p].pc = "answer_existing"
  /\ LET r == req[p]
     IN  Set(p, Goto([r EXCEPT !.existingAnswer =
                         FirstAnswerFor(Val(r.attemptId), Val(r.questionId))],
                     "answer_write"))
  /\ UNCHANGED <<store, ids, now>>

\* Mutant of UpdateAnswer: a skip leaves the flag and the points of the row.
UpdateAnswerSkipKeepsPoints(id, selectedOptionId, isCorrect, pointsEarned, answeredAt) ==
  IF id \in DOMAIN answers
  THEN [answers EXCEPT ![id] =
          IF selectedOptionId = NULL
          THEN AnswerRow(@.attempt_id, @.question_id, selectedOptionId,
                         toBool(@.is_correct), @.points_earned, answeredAt)
          ELSE AnswerRow(@.attempt_id, @.question_id, selectedOptionId,
                         isCorrect, pointsEarned, answeredAt)]
  ELSE answers

\* Mutant of UpdateAnswer: the UPDATE is WHERE attempt_id = ?, not WHERE id = ?.
UpdateAnswerAllOfAttempt(id, selectedOptionId, isCorrect, pointsEarned, answeredAt) ==
  IF id \in DOMAIN answers
  THEN [i \in DOMAIN answers |->
          IF answers[i].attempt_id = answers[id].attempt_id
          THEN AnswerRow(answers[i].attempt_id, answers[i].question_id,
                         selectedOptionId, isCorrect, pointsEarned, answeredAt)
          ELSE answers[i]]
  ELSE answers

\* Mutant of UpdateAnswer: the UPDATE keeps the selection recorded first.
UpdateAnswerKeepsSelection(id, selectedOptionId, isCorrect, pointsEarned, answeredAt) ==
  IF id \in DOMAIN answers
  THEN [answers EXCEPT ![id] =
          AnswerRow(@.attempt_id, @.question_id, @.selected_option_id,
                    isCorrect, pointsEarned, answeredAt)]
  ELSE answers

\* The answers table after UPDATE attempt_answers SET ... WHERE id = ?
UpdateAnswer(id, selectedOptionId, isCorrect, pointsEarned, answeredAt) ==
  IF id \in DOMAIN answers
  THEN [answers EXCEPT ![id] =
          AnswerRow(@.attempt_id, @.question_id, selectedOptionId,
                    isCorrect, pointsEarned, answeredAt)]
  ELSE answers

\* The UPDATE of the existing row, or the INSERT of a new one; a statement the
\* table's constraints reject makes executeMutation throw.
AnswerWrite(p) ==
  /\ req[p].pc = "answer_write"
  /\ LET r == req[p]
         row == AnswerRow(Val(r.attemptId), Val(r.questionId),
                          r.selectedOptionId, r.isCorrect, r.pointsEarned, now)
     IN  IF r.existingAnswer # NULL
         THEN IF /\ Val(r.existingAnswer).id \in DOMAIN answers
                 /\ r.selectedOptionId # NULL
                 /\ Val(r.selectedOptionId) \notin DOMAIN options
              THEN /\ Set(p, Return(r, "StorageError"))
                   /\ UNCHANGED answers
              ELSE /\ answers' = UpdateAnswer(Val(r.existingAnswer).id,
                                     r.selectedOptionId, r.isCorrect,
                                     r.pointsEarned, now)
                   /\ Set(p, Goto(r, "answer_read"))
         ELSE IF AnswerInsertAccepted(row)
              THEN /\ answers' = answers @@
                        (FreshAnswerId(row.attempt_id, row.question_id) :> row)
                   /\ Set(p, Goto(r, "answer_read"))
              ELSE /\ Set(p, Return(r, "StorageError"))
                   /\ UNCHANGED answers
  /\ UNCHANGED <<catalog, attempts, ids, now>>

\* SELECT the answer of (attempt, question) again, and return it.
AnswerReadBack(p) ==
  /\ req[p].pc = "answer_read"
  /\ LET r == req[p]
         a == FirstAnswerFor(Val(r.attemptId), Val(r.questionId))
     IN  Set(p, IF a = NULL THEN Return(r, "Failed")
                ELSE Return([r EXCEPT !.ret = a], "ok"))
  /\ UNCHANGED <<store, ids, now>>

\* -------------------------------------------------- submitQuizAttempt
RECURSIVE SumOf(_, _)
\* SUM over the rows S of the column c; SQL's SUM skips NULL.
SumOf(S, c) ==
  IF S = {} THEN 0
  ELSE LET x == CHOOSE y \in S : TRUE
       IN  (IF x[c] = NULL THEN 0 ELSE Val(x[c])) + SumOf(S \ {x}, c)

\* Mutant of ScoreJoin: an inner join, which drops the unanswered questions.
ScoreJoinInner(attemptId, quizId) ==
  LET qs == {q \in DOMAIN questions : questions[q].quiz_id = quizId}
  IN  {[q |-> q, aa |-> Some(i), points |-> Some(questions[q].points),
        points_earned |-> Some(answers[i].points_earned)] :
         <<q, i>> \in {x \in qs \X (DOMAIN answers) :
                         /\ answers[x[2]].question_id = x[1]
                         /\ answers[x[2]].attempt_id = attemptId}}

\* FROM questions q LEFT JOIN attempt_answers aa
\*   ON q.id = aa.question_id AND aa.attempt_id = ?  WHERE q.quiz_id = ?
\* One joined row per matching answer of a question, and one with a NULL
\* answer side for a question without any.
ScoreJoin(attemptId, quizId) ==
  LET qs == {q \in DOMAIN questions : questions[q].quiz_id = quizId}
  IN  {[q |-> q, aa |-> Some(i), points |-> Some(questions[q].points),
        points_earned |-> Some(answers[i].points_earned)] :
         <<q, i>> \in {x \in qs \X (DOMAIN answers) :
                         /\ answers[x[2]].question_id = x[1]
                         /\ answers[x[2]].attempt_id = attemptId}}
      \cup
      {[q |-> q, aa |-> NULL, points |-> Some(questions[q].points),
        points_earned |-> NULL] :
         q \in {y \in qs : AnswersFor(attemptId, y) = {}}}

\* Mutant of ScoreData: total_points sums the answered questions only.
ScoreDataAnsweredOnly(attemptId, quizId) ==
  [total_points |->
     SumOf({x \in ScoreJoin(attemptId, quizId) : x.aa # NULL}, "points"),
   points_earned |-> SumOf(ScoreJoin(attemptId, quizId), "points_earned")]

\* SELECT COALESCE(SUM(q.points), 0), COALESCE(SUM(aa.points_earned), 0)
ScoreData(attemptId, quizId) ==
  [total_points |-> SumOf(ScoreJoin(attemptId, quizId), "points"),
   points_earned |-> SumOf(ScoreJoin(attemptId, quizId), "points_earned")]

RECURSIVE Gcd(_, _)
Gcd(a, b) == IF b = 0 THEN a ELSE Gcd(b, a % b)

\* The real number n / d, kept exact as a fraction in lowest terms.
Ratio(n, d) == <<n \div Gcd(n, d), d \div Gcd(n, d)>>

\* score = totalPoints > 0 ? (pointsEarned / totalPoints) * 100 : 0
Score(pointsEarned, totalPoints) ==
  IF totalPoints > 0 THEN Ratio(pointsEarned * 100, totalPoints)
  ELSE Ratio(0, 1)

\* Mutant of ScoreCheck: the table has no CHECK on score.
ScoreCheckOff(score) == TRUE

\* CHECK (score IS NULL OR (score >= 0 AND score <= 100))
ScoreCheck(score) ==
  score = NULL \/ (Val(score)[1] >= 0 /\ Val(score)[1] <= 100 * Val(score)[2])

\* Mutant of DurationSeconds: the difference is not divided by 1000.
DurationMillis(submittedAt, startedAt) == submittedAt - startedAt

\* durationSeconds = Math.floor((submittedAt - attempt.started_at) / 1000)
DurationSeconds(submittedAt, startedAt) == (submittedAt - startedAt) \div 1000

\* Mutant of CompletedRow: the UPDATE leaves duration_seconds out.
CompletedRowNoDuration(row, score, pointsEarned, totalPoints, submittedAt, durationSeconds) ==
  [row EXCEPT !.score = Some(score), !.points_earned = Some(pointsEarned),
              !.total_points = Some(totalPoints),
              !.submitted_at = Some(submittedAt),
              !.is_completed = fromBool(TRUE)]

\* The row after UPDATE quiz_attempts SET score, points_earned, total_points,
\* submitted_at, duration_seconds, is_completed.
CompletedRow(row, score, pointsEarned, totalPoints, submittedAt, durationSeconds) ==
  [row EXCEPT !.score = Some(score), !.points_earned = Some(pointsEarned),
              !.total_points = Some(totalPoints),
              !.submitted_at = Some(submittedAt),
              !.duration_seconds = Some(durationSeconds),
              !.is_completed = fromBool(TRUE)]

\* Mutant of OwnAttempt: the query misses AND student_id = ?.
OwnAttemptAnyStudent(attemptId, studentId) ==
  IF attemptId \in DOMAIN attempts
  THEN Some(attempts[attemptId]) ELSE NULL

\* SELECT * FROM quiz_attempts WHERE id = ? AND student_id = ?
OwnAttempt(attemptId, studentId) ==
  IF attemptId \in DOMAIN attempts
     /\ attempts[attemptId].student_id = studentId
  THEN Some(attempts[attemptId]) ELSE NULL

\* if (!attempt) throw ...; if (toBool(attempt.is_completed)) throw ...
SubmitPrecondition(attempt) ==
  IF attempt = NULL THEN "NotFound"
  ELSE IF toBool(Val(attempt).is_completed) THEN "InvalidState"
  ELSE "ok"

\* The call, and its first statement: the attempt of this student.
SubmitGetAttempt(p, attemptId, studentId) ==
  /\ Free(p)
  /\ LET r == [Idle EXCEPT !.op = "submit", !.attemptId = Some(attemptId),
                           !.studentId = Some(studentId)]
         a == OwnAttempt(attemptId, studentId)
     IN  Set(p, IF SubmitPrecondition(a) # "ok"
                THEN Return(r, SubmitPrecondition(a))
                ELSE Goto([r EXCEPT !.attempt = a], "submit_score"))
  /\ UNCHANGED <<store, ids, now>>

\* The scoring query.
SubmitScore(p) ==
  /\ req[p].pc = "submit_score"
  /\ LET r == req[p]
     IN  Set(p, Goto([r EXCEPT !.scoreData =
                         Some(ScoreData(Val(r.attemptId), Val(r.attempt).quiz_id))],
                     "submit_update"))
  /\ UNCHANGED <<store, ids, now>>

\* The UPDATE that completes the attempt; the score CHECK may reject it.
SubmitUpdate(p) ==
  /\ req[p].pc = "submit_update"
  /\ LET r == req[p]
         a == Val(r.attemptId)
         totalPoints == Val(r.scoreData).total_points
         pointsEarned == Val(r.scoreData).points_earned
         score == Score(pointsEarned, totalPoints)
         submittedAt == now
         durationSeconds == DurationSeconds(submittedAt, Val(r.attempt).started_at)
     IN  IF a \notin DOMAIN attempts
         THEN /\ Set(p, Goto(r, "complete_attempt"))
              /\ UNCHANGED attempts
         ELSE IF ~ScoreCheck(Some(score))
         THEN /\ Set(p, Return(r, "StorageError"))
              /\ UNCHANGED attempts
         ELSE /\ attempts' = [attempts EXCEPT ![a] =
                    CompletedRow(@, score, pointsEarned, totalPoints,
                                 submittedAt, durationSeconds)]
              /\ Set(p, Goto(r, "complete_attempt"))
  /\ UNCHANGED <<catalog, answers, ids, now>>

\* ------------------------------------------------- getCompleteAttempt
\* FROM attempt_answers aa JOIN questions q ON aa.question_id = q.id
\*   JOIN answer_options correct_opt
\*     ON q.id = correct_opt.question_id AND correct_opt.is_correct = 1
\* WHERE aa.attempt_id = ?
\* The rows of the answer list, each named by its answer row and the correct
\* option it carries.
AnswersWithDetails(attemptId) ==
  {[id |-> x[1], correct_option_id |-> x[2]] :
     x \in {y \in (DOMAIN answers) \X (DOMAIN options) :
              /\ answers[y[1]].attempt_id = attemptId
              /\ answers[y[1]].question_id \in DOMAIN questions
              /\ options[y[2]].question_id = answers[y[1]].question_id
              /\ options[y[2]].is_correct = 1}}

\* getCompleteAttempt's first statement: the attempt of this student.
CompleteGetAttempt(p) ==
  /\ req[p].pc = "complete_attempt"
  /\ LET r == req[p]
         a == OwnAttempt(Val(r.attemptId), Val(r.studentId))
     IN  Set(p, IF a = NULL THEN Return(r, "NotFound")
                ELSE Goto([r EXCEPT !.attempt = a], "complete_answers"))
  /\ UNCHANGED <<store, ids, now>>

\* The quiz's title (a missing quiz gives ''), then the answers with details;
\* the attempt read before and this list are what the caller gets.
CompleteGetAnswers(p) ==
  /\ req[p].pc = "complete_answers"
  /\ LET r == req[p]
     IN  Set(p, Return([r EXCEPT !.ret =
                          Some(AnswersWithDetails(Val(r.attemptId)))], "ok"))
  /\ UNCHANGED <<store, ids, now>>

\* ----------------------------------------------------- abandonAttempt
\* A table without the rows whose ids are in gone.
Without(table, gone) == [i \in DOMAIN table \ gone |-> table[i]]

\* if (!attempt) throw ...; if (toBool(attempt.is_completed)) throw ...
AbandonPrecondition(attempt) ==
  IF attempt = NULL THEN "NotFound"
  ELSE IF toBool(Val(attempt).is_completed) THEN "InvalidState"
  ELSE "ok"

\* The call, and its first statement: the attempt of this student.
AbandonGetAttempt(p, attemptId, studentId) ==
  /\ Free(p)
  /\ LET r == [Idle EXCEPT !.op = "abandon", !.attemptId = Some(attemptId),
                           !.studentId = Some(studentId)]
         a == OwnAttempt(attemptId, studentId)
     IN  Set(p, IF AbandonPrecondition(a) # "ok"
                THEN Return(r, AbandonPrecondition(a))
                ELSE Goto([r EXCEPT !.attempt = a], "abandon_delete"))
  /\ UNCHANGED <<store, ids, now>>

\* Mutant of AnswersAfterAttemptDelete: attempt_id does not cascade.
AnswersAfterAttemptDeleteNoCascade(attemptId) == answers

\* attempt_answers after a delete of the attempt: attempt_id REFERENCES
\* quiz_attempts(id) ON DELETE CASCADE.
AnswersAfterAttemptDelete(attemptId) ==
  Without(answers, {i \in DOMAIN answers : answers[i].attempt_id = attemptId})

\* DELETE FROM quiz_attempts WHERE id = ?
AbandonDelete(p) ==
  /\ req[p].pc = "abandon_delete"
  /\ LET r == req[p]
         a == Val(r.attemptId)
     IN  /\ attempts' = Without(attempts, {a})
         /\ answers' = AnswersAfterAttemptDelete(a)
         /\ Set(p, Return(r, "ok"))
  /\ UNCHANGED <<catalog, ids, now>>

\* ------------------------------------------------------- quiz service
\* The catalog statements run on behalf of instructors; each is one statement
\* (addQuestion: one batch), and what they return is not kept.

\* updateQuiz with { is_published }, called by the instructor who owns the
\* quiz: UPDATE quizzes SET is_published = ? WHERE id = ?
UpdateQuiz(quizId, isPublished) ==
  /\ quizzes' = IF quizId \in DOMAIN quizzes
                THEN [quizzes EXCEPT ![quizId].is_published = fromBool(isPublished)]
                ELSE quizzes
  /\ UNCHANGED <<questions, options, attempts, answers, ids, now, req>>

\* unpublishQuiz: updateQuiz(db, quizId, instructorId, { is_published: false })
UnpublishQuiz(quizId) == UpdateQuiz(quizId, FALSE)

\* publishQuiz: SELECT COUNT(*) FROM questions WHERE quiz_id = ?; a count of 0
\* throws 'Cannot publish quiz without questions', otherwise
\* updateQuiz(db, quizId, instructorId, { is_published: true }).
PublishQuiz(quizId) ==
  IF Cardinality({q \in DOMAIN questions : questions[q].quiz_id = quizId}) = 0
  THEN UNCHANGED vars
  ELSE UpdateQuiz(quizId, TRUE)

\* updateOption with { is_correct }: UPDATE answer_options SET is_correct = ?
\* WHERE id = ?, with no look at the question's other options.
UpdateOption(optionId, isCorrect) ==
  /\ options' = IF optionId \in DOMAIN options
                THEN [options EXCEPT ![optionId].is_correct = fromBool(isCorrect)]
                ELSE options
  /\ UNCHANGED <<quizzes, questions, attempts, answers, ids, now, req>>

\* updateQuestion with { points }: UPDATE questions SET points = ? WHERE id = ?,
\* which CHECK (points > 0) may reject.
UpdateQuestion(questionId, points) ==
  /\ questions' = IF questionId \in DOMAIN questions /\ points > 0
                  THEN [questions EXCEPT ![questionId].points = points]
                  ELSE questions
  /\ UNCHANGED <<quizzes, options, attempts, answers, ids, now, req>>

\* The option rows addQuestion inserts for its new question.
NewOptions(questionId, flags) ==
  [o \in nextOptionId..(nextOptionId + Len(flags) - 1) |->
     [question_id |-> questionId,
      is_correct |-> fromBool(flags[o - nextOptionId + 1])]]

\* addQuestion: the two validations, then the batch that inserts the question
\* and its options; the quiz_id foreign key or CHECK (points > 0) fails it whole.
AddQuestion(quizId, points, flags) ==
  /\ nextQuestionId <= MaxQuestions
  /\ IF /\ Len(flags) >= 2
        /\ Cardinality({k \in 1..Len(flags) : flags[k]}) = 1
        /\ quizId \in DOMAIN quizzes
        /\ points > 0
     THEN /\ questions' = questions @@
               (nextQuestionId :> [quiz_id |-> quizId, points |-> points])
          /\ options' = options @@ NewOptions(nextQuestionId, flags)
          /\ nextQuestionId' = nextQuestionId + 1
          /\ nextOptionId' = nextOptionId + Len(flags)
     ELSE UNCHANGED <<questions, options, nextQuestionId, nextOptionId>>
  /\ UNCHANGED <<quizzes, attempts, answers, nextAttemptId, now, req>>

\* deleteQuestion: DELETE FROM questions WHERE id = ?, cascading to the
\* question's options and answers; an answer elsewhere that selected one of
\* the deleted options gets selected_option_id NULL.
DeleteQuestion(questionId) ==
  /\ questionId \in DOMAIN questions
  /\ LET gone == {o \in DOMAIN options : options[o].question_id = questionId}
         kept == Without(answers,
                   {i \in DOMAIN answers : answers[i].question_id = questionId})
     IN  /\ questions' = Without(questions, {questionId})
         /\ options' = Without(options, gone)
         /\ answers' = [i \in DOMAIN kept |->
                          IF kept[i].selected_option_id # NULL
                             /\ Val(kept[i].selected_option_id) \in gone
                          THEN [kept[i] EXCEPT !.selected_option_id = NULL]
                          ELSE kept[i]]
  /\ UNCHANGED <<quizzes, attempts, ids, now, req>>

\* deleteOption: the option must exist and its question must have more than
\* 2 options ('Cannot delete option. Question must have at least 2 options');
\* then DELETE FROM answer_options WHERE id = ?, which sets the
\* selected_option_id of the answers that selected it to NULL.
DeleteOption(optionId) ==
  /\ IF optionId \notin DOMAIN options
     THEN UNCHANGED <<options, answers>>
     ELSE IF Cardinality({o \in DOMAIN options :
                 options[o].question_id = options[optionId].question_id}) <= 2
     THEN UNCHANGED <<options, answers>>
     ELSE /\ options' = Without(options, {optionId})
          /\ answers' = [i \in DOMAIN answers |->
                           IF answers[i].selected_option_id = Some(optionId)
                           THEN [answers[i] EXCEPT !.selected_option_id = NULL]
                           ELSE answers[i]]
  /\ UNCHANGED <<quizzes, questions, attempts, ids, now, req>>

\* deleteQuiz by the instructor who owns the quiz: DELETE FROM quizzes WHERE
\* id = ?, cascading to the quiz's questions (and through them to their options
\* and answers) and to the quiz's attempts (and through them to their answers);
\* an answer that is left and selected a deleted option gets NULL there.
DeleteQuiz(quizId) ==
  /\ quizId \in DOMAIN quizzes
  /\ LET goneQuestions == {q \in DOMAIN questions : questions[q].quiz_id = quizId}
         goneOptions == {o \in DOMAIN options :
                           options[o].question_id \in goneQuestions}
         goneAttempts == {a \in DOMAIN attempts : attempts[a].quiz_id = quizId}
         kept == Without(answers,
                   {i \in DOMAIN answers :
                      \/ answers[i].question_id \in goneQuestions
                      \/ answers[i].attempt_id \in goneAttempts})
     IN  /\ quizzes' = Without(quizzes, {quizId})
         /\ questions' = Without(questions, goneQuestions)
         /\ options' = Without(options, goneOptions)
         /\ attempts' = Without(attempts, goneAttempts)
         /\ answers' = [i \in DOMAIN kept |->
                          IF kept[i].selected_option_id # NULL
                             /\ Val(kept[i].selected_option_id) \in goneOptions
                          THEN [kept[i] EXCEPT !.selected_option_id = NULL]
                          ELSE kept[i]]
  /\ UNCHANGED <<ids, now, req>>

\* ------------------------------------------------------------------ clock
Tick ==
  /\ \E d \in TickSteps : now + d <= MaxNow /\ now' = now + d
  /\ UNCHANGED <<store, ids, req>>

\* ------------------------------------------------------ specifications
\* Operations run one at a time: a call is made only when no other is in
\* flight.  One student takes the two-question quiz qz1.
Next ==
  \/ \E z \in {"qz1"} : Quiet /\ StartGetQuiz(1, "s1", z, MaxAttempts)
  \/ StartCheckIncomplete(1)
  \/ StartInsert(1)
  \/ StartReadBack(1)
  \/ \E a \in 1..MaxAttempts, q \in {1, 2}, o \in OptionChoices :
       Quiet /\ AnswerGetAttempt(1, a, q, o)
  \/ AnswerGetQuestion(1)
  \/ AnswerGetOption(1)
  \/ AnswerGetExisting(1)
  \/ AnswerWrite(1)
  \/ AnswerReadBack(1)
  \/ \E a \in 1..MaxAttempts : Quiet /\ SubmitGetAttempt(1, a, "s1")
  \/ SubmitScore(1)
  \/ SubmitUpdate(1)
  \/ CompleteGetAttempt(1)
  \/ CompleteGetAnswers(1)
  \/ \E a \in 1..MaxAttempts : Quiet /\ AbandonGetAttempt(1, a, "s1")
  \/ AbandonDelete(1)

Spec == Init /\ [][Next]_vars

\* One call at a time, two students and both quizzes (and the missing qz3):
\* attempts are started, submitted unanswered and abandoned; the instructor
\* may unpublish qz2.
NextStart ==
  \/ \E s \in Students, z \in QuizIds :
       Quiet /\ StartGetQuiz(1, s, z, MaxReattempts)
  \/ StartCheckIncomplete(1)
  \/ StartInsert(1)
  \/ StartReadBack(1)
  \/ \E a \in 1..MaxReattempts, s \in Students :
       Quiet /\ SubmitGetAttempt(1, a, s)
  \/ SubmitScore(1)
  \/ SubmitUpdate(1)
  \/ CompleteGetAttempt(1)
  \/ CompleteGetAnswers(1)
  \/ \E a \in 1..MaxReattempts, s \in Students :
       Quiet /\ AbandonGetAttempt(1, a, s)
  \/ AbandonDelete(1)
  \/ UnpublishQuiz("qz2")

SpecStart == Init /\ [][NextStart]_vars

\* One student takes qz1, one call at a time, while the instructor re-weights
\* the first question, adds a question and deletes questions at any moment,
\* also between two statements of a call.
NextCatalog ==
  \/ Quiet /\ StartGetQuiz(1, "s1", "qz1", MaxCatalogAttempts)
  \/ StartCheckIncomplete(1)
  \/ StartInsert(1)
  \/ StartReadBack(1)
  \/ \E a \in 1..MaxCatalogAttempts, q \in 1..MaxQuestions \ {3},
        o \in {NULL, Some(1), Some(3), Some(7)} :
       Quiet /\ AnswerGetAttempt(1, a, q, o)
  \/ AnswerGetQuestion(1)
  \/ AnswerGetOption(1)
  \/ AnswerGetExisting(1)
  \/ AnswerWrite(1)
  \/ AnswerReadBack(1)
  \/ \E a \in 1..MaxCatalogAttempts : Quiet /\ SubmitGetAttempt(1, a, "s1")
  \/ SubmitScore(1)
  \/ SubmitUpdate(1)
  \/ CompleteGetAttempt(1)
  \/ CompleteGetAnswers(1)
  \/ \E pts \in PointValues \cup {0} : UpdateQuestion(1, pts)
  \/ \E flags \in {<<TRUE, FALSE>>, <<TRUE, TRUE>>} :
       AddQuestion("qz1", 1, flags)
  \/ \E q \in 1..MaxQuestions \ {3} : DeleteQuestion(q)

SpecCatalog == Init /\ [][NextCatalog]_vars

\* Requests overlap: the statements of the calls in flight interleave in any
\* order.  One student takes the one-question quiz qz2.
NextConcurrent ==
  \/ \E p \in Procs : StartGetQuiz(p, "s1", "qz2", MaxAttempts)
  \/ \E p \in Procs : StartCheckIncomplete(p)
  \/ \E p \in Procs : StartInsert(p)
  \/ \E p \in Procs : StartReadBack(p)
  \/ \E p \in Procs, a \in 1..MaxAttempts, o \in {NULL, Some(5), Some(6)} :
       AnswerGetAttempt(p, a, 3, o)
  \/ \E p \in Procs : AnswerGetQuestion(p)
  \/ \E p \in Procs : AnswerGetOption(p)
  \/ \E p \in Procs : AnswerGetExisting(p)
  \/ \E p \in Procs : AnswerWrite(p)
  \/ \E p \in Procs : AnswerReadBack(p)
  \/ \E p \in Procs, a \in 1..MaxAttempts : SubmitGetAttempt(p, a, "s1")
  \/ \E p \in Procs : SubmitScore(p)
  \/ \E p \in Procs : SubmitUpdate(p)
  \/ \E p \in Procs : CompleteGetAttempt(p)
  \/ \E p \in Procs : CompleteGetAnswers(p)

SpecConcurrent == Init /\ [][NextConcurrent]_vars

\* One student answers the first question of qz1, one call at a time, with
\* good and bad arguments: attempt 2 is never started, question 3 is of qz2,
\* question 5 is missing, option 3 is of question 2, option 7 is missing.
\* Between the calls the instructor flags the options of the first question
\* and re-weights it.
NextValidate ==
  \/ Quiet /\ StartGetQuiz(1, "s1", "qz1", MaxCatalogAttempts)
  \/ StartCheckIncomplete(1)
  \/ StartInsert(1)
  \/ StartReadBack(1)
  \/ \E a \in 1..(MaxCatalogAttempts + 1), q \in {1, 3, MaxQuestions + 1},
        o \in {Some(1), Some(2), Some(3), Some(7)} :
       Quiet /\ AnswerGetAttempt(1, a, q, o)
  \/ AnswerGetQuestion(1)
  \/ AnswerGetOption(1)
  \/ AnswerGetExisting(1)
  \/ AnswerWrite(1)
  \/ AnswerReadBack(1)
  \/ \E o \in {1, 2}, f \in BOOLEAN : Quiet /\ UpdateOption(o, f)
  \/ \E pts \in PointValues : Quiet /\ UpdateQuestion(1, pts)

SpecValidate == Init /\ [][NextValidate]_vars

\* Time passes between the statements.  Two students take the one-question
\* quiz qz2, one call at a time: they start, answer correctly and submit.
NextClock ==
  \/ \E s \in Students : Quiet /\ StartGetQuiz(1, s, "qz2", MaxAttempts)
  \/ StartCheckIncomplete(1)
  \/ StartInsert(1)
  \/ StartReadBack(1)
  \/ \E a \in 1..MaxAttempts : Quiet /\ AnswerGetAttempt(1, a, 3, Some(5))
  \/ AnswerGetQuestion(1)
  \/ AnswerGetOption(1)
  \/ AnswerGetExisting(1)
  \/ AnswerWrite(1)
  \/ AnswerReadBack(1)
  \/ \E a \in 1..MaxAttempts, s \in Students :
       Quiet /\ SubmitGetAttempt(1, a, s)
  \/ SubmitScore(1)
  \/ SubmitUpdate(1)
  \/ CompleteGetAttempt(1)
  \/ CompleteGetAnswers(1)
  \/ Tick

SpecClock == Init /\ [][NextClock]_vars

\* Two students take qz2, one call at a time, and every call may be made for
\* either of them on either attempt.
NextOwnership ==
  \/ \E s \in Students : Quiet /\ StartGetQuiz(1, s, "qz2", MaxAttempts)
  \/ StartCheckIncomplete(1)
  \/ StartInsert(1)
  \/ StartReadBack(1)
  \/ \E s \in Students, a \in 1..MaxAttempts, o \in {NULL, Some(5)} :
       Quiet /\ AnswerGetAttemptFor(1, Some(s), a, 3, o)
  \/ AnswerGetQuestion(1)
  \/ AnswerGetOption(1)
  \/ AnswerGetExisting(1)
  \/ AnswerWrite(1)
  \/ AnswerReadBack(1)
  \/ \E a \in 1..MaxAttempts, s \in Students :
       Quiet /\ SubmitGetAttempt(1, a, s)
  \/ SubmitScore(1)
  \/ SubmitUpdate(1)
  \/ CompleteGetAttempt(1)
  \/ CompleteGetAnswers(1)
  \/ \E a \in 1..MaxAttempts, s \in Students :
       Quiet /\ AbandonGetAttempt(1, a, s)
  \/ AbandonDelete(1)

SpecOwnership == Init /\ [][NextOwnership]_vars

\* Requests overlap: one student starts qz2, and submits and abandons the
\* attempts, the statements of the calls in flight interleaving in any order.
NextConcurrentAbandon ==
  \/ \E p \in Procs : StartGetQuiz(p, "s1", "qz2", MaxAttempts)
  \/ \E p \in Procs : StartCheckIncomplete(p)
  \/ \E p \in Procs : StartInsert(p)
  \/ \E p \in Procs : StartReadBack(p)
  \/ \E p \in Procs, a \in 1..MaxAttempts : SubmitGetAttempt(p, a, "s1")
  \/ \E p \in Procs : SubmitScore(p)
  \/ \E p \in Procs : SubmitUpdate(p)
  \/ \E p \in Procs : CompleteGetAttempt(p)
  \/ \E p \in Procs : CompleteGetAnswers(p)
  \/ \E p \in Procs, a \in 1..MaxAttempts : AbandonGetAttempt(p, a, "s1")
  \/ \E p \in Procs : AbandonDelete(p)

SpecConcurrentAbandon == Init /\ [][NextConcurrentAbandon]_vars

\* Requests overlap: one student starts qz2, answers its question and
\* abandons the attempt, while the instructor deletes the question or the
\* quiz, the statements interleaving in any order.
NextConcurrentDelete ==
  \/ \E p \in Procs : StartGetQuiz(p, "s1", "qz2", MaxCatalogAttempts)
  \/ \E p \in Procs : StartCheckIncomplete(p)
  \/ \E p \in Procs : StartInsert(p)
  \/ \E p \in Procs : StartReadBack(p)
  \/ \E p \in Procs, a \in 1..MaxCatalogAttempts, o \in {NULL, Some(5)} :
       AnswerGetAttempt(p, a, 3, o)
  \/ \E p \in Procs : AnswerGetQuestion(p)
  \/ \E p \in Procs : AnswerGetOption(p)
  \/ \E p \in Procs : AnswerGetExisting(p)
  \/ \E p \in Procs : AnswerWrite(p)
  \/ \E p \in Procs : AnswerReadBack(p)
  \/ \E p \in Procs, a \in 1..MaxCatalogAttempts : AbandonGetAttempt(p, a, "s1")
  \/ \E p \in Procs : AbandonDelete(p)
  \/ DeleteQuestion(3)
  \/ DeleteQuiz("qz2")

SpecConcurrentDelete == Init /\ [][NextConcurrentDelete]_vars

\* Two students take the two quizzes, one call at a time, and the instructor
\* may delete qz2 at any moment.
NextDeleteQuiz ==
  \/ \E s \in Students, z \in {"qz1", "qz2"} :
       Quiet /\ StartGetQuiz(1, s, z, MaxAttempts)
  \/ StartCheckIncomplete(1)
  \/ StartInsert(1)
  \/ StartReadBack(1)
  \/ \E a \in 1..MaxAttempts, q \in {1, 3}, o \in {NULL, Some(5)} :
       Quiet /\ AnswerGetAttempt(1, a, q, o)
  \/ AnswerGetQuestion(1)
  \/ AnswerGetOption(1)
  \/ AnswerGetExisting(1)
  \/ AnswerWrite(1)
  \/ AnswerReadBack(1)
  \/ \E a \in 1..MaxAttempts, s \in Students :
       Quiet /\ SubmitGetAttempt(1, a, s)
  \/ SubmitScore(1)
  \/ SubmitUpdate(1)
  \/ CompleteGetAttempt(1)
  \/ CompleteGetAnswers(1)
  \/ DeleteQuiz("qz2")

SpecDeleteQuiz == Init /\ [][NextDeleteQuiz]_vars

\* One student answers the two questions of qz1, one call at a time and in
\* any order, and submits, while time passes.
NextOrder ==
  \/ Quiet /\ StartGetQuiz(1, "s1", "qz1", MaxCatalogAttempts)
  \/ StartCheckIncomplete(1)
  \/ StartInsert(1)
  \/ StartReadBack(1)
  \/ \E a \in 1..MaxCatalogAttempts, q \in {1, 2},
        o \in {Some(1), Some(3), Some(4)} :
       Quiet /\ AnswerGetAttempt(1, a, q, o)
  \/ AnswerGetQuestion(1)
  \/ AnswerGetOption(1)
  \/ AnswerGetExisting(1)
  \/ AnswerWrite(1)
  \/ AnswerReadBack(1)
  \/ \E a \in 1..MaxCatalogAttempts : Quiet /\ SubmitGetAttempt(1, a, "s1")
  \/ SubmitScore(1)
  \/ SubmitUpdate(1)
  \/ CompleteGetAttempt(1)
  \/ CompleteGetAnswers(1)
  \/ Tick

SpecOrder == Init /\ [][NextOrder]_vars

\* The instructor's catalog operations on the quizzes qz1 and qz2, one call
\* at a time.
NextPublishing ==
  \/ \E z \in {"qz1", "qz2"} : PublishQuiz(z)
  \/ \E z \in {"qz1", "qz2"} : UnpublishQuiz(z)
  \/ \E z \in {"qz1", "qz2"}, b \in BOOLEAN : UpdateQuiz(z, b)
  \/ \E z \in {"qz1", "qz2"}, pts \in PointValues :
       AddQuestion(z, pts, <<TRUE, FALSE>>)
  \/ \E q \in 1..MaxQuestions : DeleteQuestion(q)

SpecPublishing == Init /\ [][NextPublishing]_vars

\* The instructor adds a question of two or three options to qz1, and sets
\* flags of and deletes options of question 1 and of the new question, one
\* call at a time.
NextOptions ==
  \/ \E pts \in PointValues,
        flags \in {<<TRUE, FALSE>>, <<FALSE, TRUE, FALSE>>, <<FALSE, FALSE>>} :
       AddQuestion("qz1", pts, flags)
  \/ \E o \in {1, 2, 7, 8, 9}, f \in BOOLEAN : UpdateOption(o, f)
  \/ \E o \in {1, 7, 8, 9} : DeleteOption(o)

SpecOptions == Init /\ [][NextOptions]_vars

\* One student takes the one-question quiz qz2 and submits it, one call at a
\* time, while the instructor sets and clears the correctness flags of the
\* question's two options between the calls.
NextReview ==
  \/ Quiet /\ StartGetQuiz(1, "s1", "qz2", MaxCatalogAttempts)
  \/ StartCheckIncomplete(1)
  \/ StartInsert(1)
  \/ StartReadBack(1)
  \/ \E a \in 1..MaxCatalogAttempts, o \in {NULL, Some(5), Some(6)} :
       Quiet /\ AnswerGetAttempt(1, a, 3, o)
  \/ AnswerGetQuestion(1)
  \/ AnswerGetOption(1)
  \/ AnswerGetExisting(1)
  \/ AnswerWrite(1)
  \/ AnswerReadBack(1)
  \/ \E a \in 1..MaxCatalogAttempts : Quiet /\ SubmitGetAttempt(1, a, "s1")
  \/ SubmitScore(1)
  \/ SubmitUpdate(1)
  \/ CompleteGetAttempt(1)
  \/ CompleteGetAnswers(1)
  \/ \E o \in {5, 6}, f \in BOOLEAN : Quiet /\ UpdateOption(o, f)

SpecReview == Init /\ [][NextReview]_vars
\* ================================================================ claims
\* What the claims speak of.
Completed(a) == a \in DOMAIN attempts /\ attempts[a].is_completed = 1
InProgress(a) == a \in DOMAIN attempts /\ attempts[a].is_completed = 0
AnswerIdsOf(a) == {i \in DOMAIN answers : answers[i].attempt_id = a}

\* Slot p makes a call in this step (the call's first statement runs).
Calls(p) == Free(p) /\ req'[p] # req[p]

\* Slot p's call returns in this step.
Returns(p) == req[p].pc # "done" /\ req'[p].pc = "done"

RECURSIVE Total(_, _)
\* The sum of f[x] over the x in S.
Total(f, S) ==
  IF S = {} THEN 0
  ELSE LET x == CHOOSE y \in S : TRUE IN f[x] + Total(f, S \ {x})

\* The weights of the questions a quiz has now.
QuizWeight(z) ==
  Total([q \in DOMAIN questions |-> questions[q].points],
        {q \in DOMAIN questions : questions[q].quiz_id = z})

\* The points of the answer rows an attempt has now.
AttemptEarned(a) ==
  Total([i \in DOMAIN answers |-> answers[i].points_earned], AnswerIdsOf(a))

\* ---------------------------------------------------------------- C1
\* C1: however concurrent startAttempt calls interleave, no state holds two
\* in-progress attempts of one student for one quiz.
C1_AtMostOneInProgress ==
  \A s \in Students, z \in QuizIds :
    Cardinality({a \in DOMAIN attempts :
                   /\ attempts[a].student_id = s /\ attempts[a].quiz_id = z
                   /\ attempts[a].is_completed = 0}) <= 1

\* ---------------------------------------------------------------- C2
\* C2: with one call at a time, startAttempt(s, q) on a published quiz fails
\* with ConflictError exactly when s holds an incomplete attempt for q, and
\* otherwise goes on to insert and return a new in-progress attempt of s for
\* q; completed attempts for (s, q), and incomplete attempts of another
\* student or for another quiz, do not stop it.
HoldsIncomplete(s, z) ==
  \E a \in DOMAIN attempts :
    /\ attempts[a].student_id = s /\ attempts[a].quiz_id = z
    /\ attempts[a].is_completed = 0

C2_Decision(p) ==
  (req[p].pc = "start_check" /\ req'[p] # req[p]) =>
    IF HoldsIncomplete(Val(req[p].studentId), Val(req[p].quizId))
    THEN /\ req'[p].pc = "done" /\ req'[p].res = "Conflict"
         /\ attempts' = attempts
    ELSE req'[p].pc = "start_insert"

C2_Success(p) ==
  (req[p].pc \in {"start_insert", "start_read"} /\ Returns(p)) =>
    /\ req'[p].res = "ok"
    /\ LET a == Val(req'[p].attemptId)
       IN  /\ a \in DOMAIN attempts'
           /\ attempts'[a].is_completed = 0
           /\ attempts'[a].student_id = Val(req[p].studentId)
           /\ attempts'[a].quiz_id = Val(req[p].quizId)

C2_SingleInProgress ==
  [][\A p \in Procs : C2_Decision(p) /\ C2_Success(p)]_vars

\* s1 has started qz1 again after submitting its first attempt, while s2 holds
\* an incomplete attempt for qz1.
C2_Witness ==
  /\ req[1].op = "start" /\ req[1].pc = "done" /\ req[1].res = "ok"
  /\ req[1].studentId = Some("s1") /\ req[1].quizId = Some("qz1")
  /\ \E a \in DOMAIN attempts :
       /\ Completed(a) /\ attempts[a].student_id = "s1"
       /\ attempts[a].quiz_id = "qz1"
  /\ HoldsIncomplete("s2", "qz1")
  /\ HoldsIncomplete("s1", "qz1")

\* ---------------------------------------------------------------- C3
\* C3: when recordAnswer and submitAttempt interleave, no Answer row of an
\* attempt is inserted or overwritten once the attempt is completed.
AnswerRowsOf(a) == {<<i, answers[i]>> : i \in AnswerIdsOf(a)}

C3_NoAnswerAfterCompletion ==
  [][\A a \in DOMAIN attempts :
       Completed(a) => AnswerRowsOf(a)' = AnswerRowsOf(a)]_vars

\* ---------------------------------------------------------------- C4
\* C4: when two recordAnswer calls for one (attempt, question) interleave,
\* there is one Answer row for the pair afterwards and neither call has failed
\* because of the other: no recordAnswer ends with its write rejected by the
\* store or with its row missing.
C4_BothCallsSucceed ==
  /\ \A a \in DOMAIN attempts, q \in DOMAIN questions :
       Cardinality(AnswersFor(a, q)) <= 1
  /\ \A p \in Procs :
       (req[p].op = "answer" /\ req[p].pc = "done") =>
         req[p].res \notin {"StorageError", "Failed"}

\* ---------------------------------------------------------------- C5
\* C5: a successful recordAnswer(A, Q, o) leaves exactly one Answer row for
\* (A, Q), and that row carries o, o's correctness and o's points, also when it
\* overwrites the row of an earlier call; in every state there is at most one
\* Answer row per (attempt, question).
C5_OneRowPerPair ==
  \A a \in DOMAIN attempts, q \in DOMAIN questions :
    Cardinality(AnswersFor(a, q)) <= 1

C5_ReturnReflectsCall(p) ==
  (req[p].op = "answer" /\ Returns(p) /\ req'[p].res = "ok") =>
    LET a == Val(req[p].attemptId)
        q == Val(req[p].questionId)
        o == req[p].selectedOptionId
        correct == o # NULL /\ options[Val(o)].is_correct = 1
    IN  /\ Cardinality(AnswersFor(a, q)') = 1
        /\ \A i \in AnswersFor(a, q)' :
             /\ answers'[i].selected_option_id = o
             /\ answers'[i].is_correct = (IF correct THEN 1 ELSE 0)
             /\ answers'[i].points_earned =
                  (IF correct THEN questions[q].points ELSE 0)

C5_IdempotentOverwrite ==
  [](C5_OneRowPerPair) /\ [][\A p \in Procs : C5_ReturnReflectsCall(p)]_vars

\* A second recordAnswer for the pair found the row of the first, which had
\* another selection, and has overwritten it with its own.
C5_Witness ==
  \E p \in Procs :
    /\ req[p].op = "answer" /\ req[p].pc = "answer_read"
    /\ req[p].existingAnswer # NULL
    /\ Val(req[p].existingAnswer).row.selected_option_id # req[p].selectedOptionId
    /\ \E i \in AnswersFor(Val(req[p].attemptId), Val(req[p].questionId)) :
         answers[i].selected_option_id = req[p].selectedOptionId

\* ---------------------------------------------------------------- C6
\* C6: a completed attempt's row never changes again, and a recordAnswer or
\* (owner's) submitAttempt call made on a completed attempt fails with
\* InvalidStateError.
C6_LaterCallRejected(p) ==
  (/\ Calls(p)
   /\ req'[p].op \in {"answer", "submit"}
   /\ Completed(Val(req'[p].attemptId))
   /\ req'[p].op = "submit" =>
        attempts[Val(req'[p].attemptId)].student_id = Val(req'[p].studentId))
  => (req'[p].pc = "done" /\ req'[p].res = "InvalidState")

C6_TerminalImmutability ==
  [][/\ \A a \in DOMAIN attempts :
          Completed(a) => (a \in DOMAIN attempts' /\ attempts'[a] = attempts[a])
     /\ \A p \in Procs : C6_LaterCallRejected(p)]_vars

\* A recordAnswer on a completed attempt has been rejected.
C6_Witness ==
  \E p \in Procs :
    /\ req[p].op = "answer" /\ req[p].pc = "done"
    /\ req[p].res = "InvalidState"
    /\ Completed(Val(req[p].attemptId))

\* ---------------------------------------------------------------- C7
\* C7: when two submitAttempt calls for one in-progress attempt interleave, at
\* most one of them succeeds.
C7_SingleShotSubmit ==
  \A p, q \in Procs :
    (/\ p # q
     /\ req[p].op = "submit" /\ req[q].op = "submit"
     /\ req[p].attemptId = req[q].attemptId
     /\ req[p].pc = "done" /\ req[q].pc = "done")
    => ~(req[p].res = "ok" /\ req[q].res = "ok")

\* ---------------------------------------------------------------- C8
\* C8: every attempt row is either in progress with its five scoring fields
\* NULL or completed with all five set; no state shows anything in between, so
\* the step that completes an attempt sets the flag and the fields together.
C8_InProgressShape(row) ==
  /\ row.is_completed = 0
  /\ row.score = NULL /\ row.points_earned = NULL /\ row.total_points = NULL
  /\ row.submitted_at = NULL /\ row.duration_seconds = NULL

C8_CompletedShape(row) ==
  /\ row.is_completed = 1
  /\ row.score # NULL /\ row.points_earned # NULL /\ row.total_points # NULL
  /\ row.submitted_at # NULL /\ row.duration_seconds # NULL

C8_TwoShapes ==
  \A a \in DOMAIN attempts :
    C8_InProgressShape(attempts[a]) \/ C8_CompletedShape(attempts[a])

\* An attempt has been completed while another is in progress.
C8_Witness ==
  \E a, b \in DOMAIN attempts :
    C8_CompletedShape(attempts[a]) /\ C8_InProgressShape(attempts[b])

\* ---------------------------------------------------------------- C9
\* C9: whatever ledger calls and catalog edits came before, a completed
\* attempt has 0 <= points_earned <= total_points, a score between 0 and 100,
\* and score 0 when total_points is 0.
C9_ScoreBounds ==
  \A a \in DOMAIN attempts :
    Completed(a) =>
      LET pe == Val(attempts[a].points_earned)
          tp == Val(attempts[a].total_points)
          n == Val(attempts[a].score)[1]
          d == Val(attempts[a].score)[2]
      IN  /\ 0 <= pe /\ pe <= tp
          /\ d > 0 /\ 0 <= n /\ n <= 100 * d
          /\ tp = 0 => n = 0

\* The first question was answered correctly for 5 points and then
\* re-weighted to 1 before the submit: 5 earned of 1 + 5 = 6.
C9_Witness ==
  \E a \in DOMAIN attempts :
    /\ Completed(a)
    /\ attempts[a].points_earned = Some(5)
    /\ attempts[a].total_points = Some(6)
    /\ 2 \in DOMAIN questions
    /\ \E i \in AnswerIdsOf(a) :
         answers[i].question_id = 1 /\ answers[i].points_earned = 5

\* ---------------------------------------------------------------- C10
\* C10: the step that completes an attempt stores total_points = the weights
\* of all questions of its quiz, points_earned = the points of its Answer rows,
\* and score = points_earned * 100 / total_points.
C10_StoredScore(a) ==
  (InProgress(a) /\ Completed(a)') =>
    LET row == attempts'[a]
        tp == QuizWeight(attempts[a].quiz_id)
        pe == AttemptEarned(a)
    IN  /\ row.total_points = Some(tp)
        /\ row.points_earned = Some(pe)
        /\ tp > 0 => Val(row.score)[1] * tp = pe * 100 * Val(row.score)[2]
        /\ tp = 0 => row.score = Some(<<0, 1>>)

C10_Scoring == [][\A a \in DOMAIN attempts : C10_StoredScore(a)]_vars

\* Two 5-point questions, only the first answered, correctly: 5, 10, 50.
C10_Witness ==
  \E a \in DOMAIN attempts :
    /\ Completed(a)
    /\ \E i \in AnswerIdsOf(a) :
         /\ AnswerIdsOf(a) = {i}
         /\ answers[i].question_id = 1 /\ answers[i].is_correct = 1
    /\ attempts[a].points_earned = Some(5)
    /\ attempts[a].total_points = Some(10)
    /\ attempts[a].score = Some(<<50, 1>>)

\* ---------------------------------------------------------------- C11
\* C11: recordAnswer(A, Q, null) on an in-progress attempt, for a question of
\* its quiz, returns successfully and leaves one Answer row for (A, Q) with no
\* selected option, correctness false and 0 points, whatever row the pair had
\* before; and the step that completes an attempt holding a skipped answer
\* stores the weight of all the quiz's questions, the skipped one included, as
\* total_points.
SkippedRows(a) ==
  {i \in AnswerIdsOf(a) : answers[i].selected_option_id = NULL}

\* The rows of (a, q) after the step.
AnswersForAfter(a, q) ==
  {i \in DOMAIN answers' :
     answers'[i].attempt_id = a /\ answers'[i].question_id = q}

C11_SkipRecorded(p) ==
  (/\ req'[p] # req[p] /\ req'[p].pc = "done"
   /\ req'[p].op = "answer" /\ req'[p].selectedOptionId = NULL
   /\ InProgress(Val(req'[p].attemptId))
   /\ QuestionOfQuiz(Val(req'[p].questionId),
                     attempts[Val(req'[p].attemptId)].quiz_id))
  => LET a == Val(req'[p].attemptId)
         q == Val(req'[p].questionId)
     IN  /\ req'[p].res = "ok"
         /\ Cardinality(AnswersForAfter(a, q)) = 1
         /\ \A i \in AnswersForAfter(a, q) :
              /\ answers'[i].selected_option_id = NULL
              /\ answers'[i].is_correct = 0
              /\ answers'[i].points_earned = 0
              /\ req'[p].ret = Some([id |-> i, row |-> answers'[i]])

C11_SkipCounted(a) ==
  (InProgress(a) /\ Completed(a)' /\ SkippedRows(a) # {}) =>
    /\ attempts'[a].total_points = Some(QuizWeight(attempts[a].quiz_id))
    /\ \A i \in SkippedRows(a) :
         Val(attempts'[a].total_points) >= questions[answers[i].question_id].points
    /\ attempts'[a].points_earned =
         Some(Total([i \in DOMAIN answers |-> answers[i].points_earned],
                    AnswerIdsOf(a) \ SkippedRows(a)))

C11_SkipSemantics ==
  [][/\ \A p \in Procs : C11_SkipRecorded(p)
     /\ \A a \in DOMAIN attempts : C11_SkipCounted(a)]_vars

\* An attempt that skipped the first question was completed with both
\* questions' weights as its total, and in the next attempt a skip has just
\* overwritten a correct answer.
C11_Witness ==
  /\ \E a \in DOMAIN attempts :
       /\ Completed(a)
       /\ \E i \in SkippedRows(a) : answers[i].question_id = 1
       /\ attempts[a].total_points = Some(10)
       /\ attempts[a].points_earned = Some(0)
  /\ \E p \in Procs :
       /\ req[p].op = "answer" /\ req[p].pc = "answer_read"
       /\ req[p].selectedOptionId = NULL
       /\ req[p].existingAnswer # NULL
       /\ Val(req[p].existingAnswer).row.is_correct = 1
       /\ \A i \in AnswersFor(Val(req[p].attemptId), Val(req[p].questionId)) :
            answers[i].selected_option_id = NULL /\ answers[i].points_earned = 0

\* ---------------------------------------------------------------- C12
\* C12: a recordAnswer(A, Q, o) with an option o of Q, on an in-progress
\* attempt and a question of its quiz, returns successfully, and its row has
\* correctness true exactly when o is flagged correct in the catalog, with
\* Q's weight as points when it is and 0 when it is not; so where no option
\* of Q is flagged correct every selection is stored incorrect with 0 points.
CorrectOptionsOf(q) ==
  {o \in DOMAIN options : options[o].question_id = q /\ options[o].is_correct = 1}

C12_Graded(p) ==
  (/\ req'[p] # req[p] /\ req'[p].pc = "done"
   /\ req'[p].op = "answer" /\ req'[p].selectedOptionId # NULL
   /\ InProgress(Val(req'[p].attemptId))
   /\ Val(req'[p].questionId) \in DOMAIN questions
   /\ questions[Val(req'[p].questionId)].quiz_id =
        attempts[Val(req'[p].attemptId)].quiz_id
   /\ Val(req'[p].selectedOptionId) \in DOMAIN options
   /\ options[Val(req'[p].selectedOptionId)].question_id = Val(req'[p].questionId))
  => LET a == Val(req'[p].attemptId)
         q == Val(req'[p].questionId)
         o == Val(req'[p].selectedOptionId)
     IN  /\ req'[p].res = "ok"
         /\ Cardinality(AnswersForAfter(a, q)) = 1
         /\ \A i \in AnswersForAfter(a, q) :
              /\ answers'[i].selected_option_id = Some(o)
              /\ (answers'[i].is_correct = 1) <=> (o \in CorrectOptionsOf(q))
              /\ answers'[i].is_correct \in {0, 1}
              /\ answers'[i].points_earned =
                   (IF o \in CorrectOptionsOf(q) THEN questions[q].points ELSE 0)
              /\ CorrectOptionsOf(q) = {} =>
                   answers'[i].is_correct = 0 /\ answers'[i].points_earned = 0

C12_CorrectnessAndPoints == [][\A p \in Procs : C12_Graded(p)]_vars

\* The first question has no option flagged correct, and an answer selecting
\* one of its options has been recorded, incorrect and with 0 points.
C12_Witness ==
  /\ CorrectOptionsOf(1) = {}
  /\ \E p \in Procs :
       /\ req[p].op = "answer" /\ req[p].pc = "done" /\ req[p].res = "ok"
       /\ req[p].questionId = Some(1) /\ req[p].selectedOptionId = Some(1)
       /\ Val(req[p].ret).row.is_correct = 0
       /\ Val(req[p].ret).row.points_earned = 0
       /\ Val(req[p].ret).row.selected_option_id = Some(1)

\* ---------------------------------------------------------------- C13
\* C13: recordAnswer fails with NotFoundError when the attempt does not exist,
\* with ValidationError when the question does not exist or is of another
\* quiz than the attempt's, and with ValidationError when the selected option
\* does not exist or is of another question; a recordAnswer call changes no
\* table before its write, so a call that fails so has written nothing.
C13_Rejected(p) ==
  LET a == Val(req'[p].attemptId)
      q == Val(req'[p].questionId)
      o == req'[p].selectedOptionId
  IN  /\ (Calls(p) /\ req'[p].op = "answer" /\ a \notin DOMAIN attempts) =>
           req'[p].pc = "done" /\ req'[p].res = "NotFound"
      /\ (/\ req[p].pc = "answer_question" /\ req'[p] # req[p]
          /\ \/ q \notin DOMAIN questions
             \/ questions[q].quiz_id # Val(req[p].attempt).quiz_id) =>
           req'[p].pc = "done" /\ req'[p].res = "Validation"
      /\ (/\ req[p].pc = "answer_option" /\ req'[p] # req[p]
          /\ \/ Val(o) \notin DOMAIN options
             \/ options[Val(o)].question_id # q) =>
           req'[p].pc = "done" /\ req'[p].res = "Validation"

C13_NothingWritten(p) ==
  (/\ req'[p] # req[p] /\ req'[p].op = "answer"
   /\ \/ req[p].pc # "answer_write"
      \/ req'[p].res \in {"NotFound", "Validation"})
  => store' = store

C13_FailsWithoutWriting ==
  [][\A p \in Procs : C13_Rejected(p) /\ C13_NothingWritten(p)]_vars

\* With an answer to the first question on record, a recordAnswer for it that
\* selects an option of the second question has been rejected.
C13_Witness ==
  \E p \in Procs :
    /\ req[p].op = "answer" /\ req[p].pc = "done" /\ req[p].res = "Validation"
    /\ req[p].questionId = Some(1) /\ req[p].selectedOptionId = Some(3)
    /\ InProgress(Val(req[p].attemptId))
    /\ AnswersFor(Val(req[p].attemptId), 1) # {}

\* ---------------------------------------------------------------- C14
\* C14: startAttempt returns NotFoundError for a quiz that does not exist and
\* NotPublishedError for a quiz that is not published, at once and without
\* touching the attempts; an attempt row only ever appears by the INSERT of a
\* start that has passed both checks.
C14_Rejected(p) ==
  (Calls(p) /\ req'[p].op = "start") =>
    LET z == Val(req'[p].quizId)
    IN  /\ z \notin DOMAIN quizzes =>
             /\ req'[p].pc = "done" /\ req'[p].res = "NotFound"
             /\ attempts' = attempts
        /\ (z \in DOMAIN quizzes /\ quizzes[z].is_published = 0) =>
             /\ req'[p].pc = "done" /\ req'[p].res = "NotPublished"
             /\ attempts' = attempts

C14_RowsOnlyByInsert ==
  (DOMAIN attempts' \ DOMAIN attempts # {}) =>
    \E p \in Procs : req[p].pc = "start_insert" /\ req'[p].pc = "start_read"

C14_StartPreconditions ==
  [][C14_RowsOnlyByInsert /\ \A p \in Procs : C14_Rejected(p)]_vars

\* A start on qz2 has been refused as not published, after an attempt on it
\* had been started while it was.
C14_Witness ==
  /\ quizzes["qz2"].is_published = 0
  /\ \E p \in Procs :
       /\ req[p].op = "start" /\ req[p].pc = "done"
       /\ req[p].res = "NotPublished" /\ req[p].quizId = Some("qz2")
       /\ req[p].attemptId = NULL
       /\ \E a \in DOMAIN attempts :
            /\ attempts[a].quiz_id = "qz2"
            /\ attempts[a].student_id # Val(req[p].studentId)
       /\ ~HoldsIncomplete(Val(req[p].studentId), "qz2")

\* ---------------------------------------------------------------- C15
\* C15: the INSERT of a startAttempt(s, q) adds exactly one attempt row, with
\* student s, quiz q, completion false, started_at the current time and the
\* five scoring fields NULL; no other step of the call changes a table, every
\* other attempt row and every Answer row stays as it was, and a successful
\* call returns the new row.
C15_Insert(p) ==
  (req[p].pc = "start_insert" /\ req'[p].pc = "start_read") =>
    /\ Cardinality(DOMAIN attempts' \ DOMAIN attempts) = 1
    /\ \A n \in DOMAIN attempts' \ DOMAIN attempts :
         /\ req'[p].attemptId = Some(n)
         /\ attempts'[n] =
              [student_id |-> Val(req[p].studentId), quiz_id |-> Val(req[p].quizId),
               is_completed |-> 0, started_at |-> now,
               score |-> NULL, points_earned |-> NULL, total_points |-> NULL,
               submitted_at |-> NULL, duration_seconds |-> NULL]
    /\ \A a \in DOMAIN attempts :
         a \in DOMAIN attempts' /\ attempts'[a] = attempts[a]
    /\ answers' = answers /\ catalog' = catalog

C15_OtherSteps(p) ==
  (req'[p] # req[p] /\ req'[p].op = "start" /\ req[p].pc # "start_insert") =>
    /\ store' = store
    /\ (req'[p].pc = "done" /\ req'[p].res = "ok") =>
         /\ Val(req'[p].attemptId) \in DOMAIN attempts
         /\ req'[p].ret = Some(attempts[Val(req'[p].attemptId)])
         /\ Val(req'[p].ret).is_completed = 0

C15_StartFrame ==
  [][\A p \in Procs : C15_Insert(p) /\ C15_OtherSteps(p)]_vars

\* After a first attempt was answered and submitted and a second had passed,
\* a start has returned a new in-progress row stamped with the later time.
C15_Witness ==
  \E p \in Procs :
    /\ req[p].op = "start" /\ req[p].pc = "done" /\ req[p].res = "ok"
    /\ Val(req[p].ret).started_at = 1000
    /\ Val(req[p].ret).student_id = Val(req[p].studentId)
    /\ \E a \in DOMAIN attempts :
         /\ a # Val(req[p].attemptId) /\ Completed(a)
         /\ attempts[a].started_at = 0
         /\ AnswerIdsOf(a) # {}

\* ---------------------------------------------------------------- C16
\* C16: a submitAttempt(a, s) or abandonAttempt(a, s) where s does not own the
\* existing attempt a fails at once and changes no table; and whenever an
\* attempt is completed or deleted, the step is the write of a submitAttempt
\* or abandonAttempt call that carries the id of the attempt's owner.
C16_NonOwnerRejected(p) ==
  (/\ Calls(p) /\ req'[p].op \in {"submit", "abandon"}
   /\ Val(req'[p].attemptId) \in DOMAIN attempts
   /\ attempts[Val(req'[p].attemptId)].student_id # Val(req'[p].studentId))
  => /\ req'[p].pc = "done" /\ req'[p].res = "NotFound"
     /\ store' = store

C16_OnlyByOwner(a) ==
  /\ (InProgress(a) /\ Completed(a)') =>
       \E p \in Procs :
         /\ req[p].op = "submit" /\ req[p].pc = "submit_update"
         /\ req[p].attemptId = Some(a)
         /\ req[p].studentId = Some(attempts[a].student_id)
  /\ a \notin DOMAIN attempts' =>
       \E p \in Procs :
         /\ req[p].op = "abandon" /\ req[p].pc = "abandon_delete"
         /\ req[p].attemptId = Some(a)
         /\ req[p].studentId = Some(attempts[a].student_id)

C16_OwnerOnly ==
  [][/\ \A p \in Procs : C16_NonOwnerRejected(p)
     /\ \A a \in DOMAIN attempts : C16_OnlyByOwner(a)]_vars

\* A submitAttempt by the student who does not own an in-progress attempt
\* with an answer on record has failed.
C16_Witness ==
  \E p \in Procs :
    /\ req[p].op = "submit" /\ req[p].pc = "done" /\ req[p].res = "NotFound"
    /\ InProgress(Val(req[p].attemptId))
    /\ attempts[Val(req[p].attemptId)].student_id # Val(req[p].studentId)
    /\ AnswerIdsOf(Val(req[p].attemptId)) # {}

\* ---------------------------------------------------------------- C17
\* C17: no Answer row of an attempt is created or overwritten by a
\* recordAnswer request made for a student other than the attempt's owner.
C17_AnswersOnlyByOwner ==
  [][\A p \in Procs :
       (/\ req[p].op = "answer" /\ req[p].pc = "answer_write"
        /\ answers' # answers
        /\ Val(req[p].attemptId) \in DOMAIN attempts)
       => req[p].studentId = Some(attempts[Val(req[p].attemptId)].student_id)]_vars

\* ---------------------------------------------------------------- C18
\* C18: the DELETE of a successful abandonAttempt removes the attempt row and
\* every Answer row of the attempt and nothing else; from then on a lookup of
\* the attempt by its id finds no row and no Answer row refers to it.
C18_Delete(p) ==
  (req[p].pc = "abandon_delete" /\ req'[p] # req[p]) =>
    LET a == Val(req[p].attemptId)
    IN  /\ req'[p].pc = "done" /\ req'[p].res = "ok"
        /\ DOMAIN attempts' = DOMAIN attempts \ {a}
        /\ DOMAIN answers' = DOMAIN answers \ AnswerIdsOf(a)
        /\ \A b \in DOMAIN attempts' : attempts'[b] = attempts[b]
        /\ \A i \in DOMAIN answers' : answers'[i] = answers[i]

C18_Gone ==
  \A p \in Procs :
    (req[p].op = "abandon" /\ req[p].pc = "done" /\ req[p].res = "ok") =>
      /\ AttemptById(Val(req[p].attemptId)) = NULL
      /\ \A i \in DOMAIN answers : answers[i].attempt_id # Val(req[p].attemptId)

C18_AbandonRemovesAll ==
  [](C18_Gone) /\ [][\A p \in Procs : C18_Delete(p)]_vars

\* The second attempt has been abandoned and is gone; the first, completed
\* before, still has its two answers.
C18_Witness ==
  \E p \in Procs :
    /\ req[p].op = "abandon" /\ req[p].pc = "done" /\ req[p].res = "ok"
    /\ req[p].attemptId = Some(2)
    /\ 2 \notin DOMAIN attempts /\ nextAttemptId = 3
    /\ Completed(1) /\ Cardinality(AnswerIdsOf(1)) = 2

\* ---------------------------------------------------------------- C19
\* C19: an abandonAttempt called on a completed attempt fails with
\* InvalidStateError, and however abandonAttempt and submitAttempt
\* interleave, an attempt row that is completed is never removed.
C19_CompletedRejected(p) ==
  (/\ Calls(p) /\ req'[p].op = "abandon"
   /\ Completed(Val(req'[p].attemptId))
   /\ attempts[Val(req'[p].attemptId)].student_id = Val(req'[p].studentId))
  => (req'[p].pc = "done" /\ req'[p].res = "InvalidState")

C19_DeletedOnlyInProgress ==
  [][/\ \A p \in Procs : C19_CompletedRejected(p)
     /\ \A a \in DOMAIN attempts : Completed(a) => a \in DOMAIN attempts']_vars

\* ---------------------------------------------------------------- C20
\* C20: a submitAttempt called with the owner's id on an in-progress attempt
\* is not refused, and its UPDATE completes the attempt, whatever answers are
\* on record; and an attempt is only ever completed by such a call.
C20_Accepted(p) ==
  (/\ Calls(p) /\ req'[p].op = "submit"
   /\ InProgress(Val(req'[p].attemptId))
   /\ attempts[Val(req'[p].attemptId)].student_id = Val(req'[p].studentId))
  => req'[p].pc = "submit_score"

C20_Completes(p) ==
  (/\ req[p].pc = "submit_update" /\ req'[p] # req[p]
   /\ InProgress(Val(req[p].attemptId)))
  => /\ Completed(Val(req[p].attemptId))'
     /\ req'[p].pc = "complete_attempt"

C20_OnlyBySubmit(a) ==
  (InProgress(a) /\ Completed(a)') =>
    \E p \in Procs :
      /\ req[p].op = "submit" /\ req[p].pc = "submit_update"
      /\ req[p].attemptId = Some(a)

C20_SubmitAlwaysCompletes ==
  [][/\ \A p \in Procs : C20_Accepted(p) /\ C20_Completes(p)
     /\ \A a \in DOMAIN attempts : C20_OnlyBySubmit(a)]_vars

\* ---------------------------------------------------------------- C21
\* C21: a step that deletes a quiz removes no attempt of that quiz and
\* changes neither such an attempt nor its Answer rows.
C21_AttemptsSurviveDeleteQuiz ==
  [][\A a \in DOMAIN attempts :
       (/\ attempts[a].quiz_id \in DOMAIN quizzes
        /\ attempts[a].quiz_id \notin DOMAIN quizzes')
       => /\ a \in DOMAIN attempts' /\ attempts'[a] = attempts[a]
          /\ AnswerRowsOf(a)' = AnswerRowsOf(a)]_vars

\* ---------------------------------------------------------------- C22
\* C22: the write of a recordAnswer(A, Q, o) changes the Answer row of (A, Q)
\* and nothing else: every attempt row, A's included, every Answer row of A
\* for another question, every Answer row of another attempt and the catalog
\* are as before; the other statements of the call change no table.
C22_Write(p) ==
  (req[p].op = "answer" /\ req[p].pc = "answer_write" /\ req'[p] # req[p]) =>
    LET a == Val(req[p].attemptId)
        q == Val(req[p].questionId)
    IN  /\ attempts' = attempts /\ catalog' = catalog
        /\ \A i \in DOMAIN answers :
             (answers[i].attempt_id # a \/ answers[i].question_id # q) =>
               i \in DOMAIN answers' /\ answers'[i] = answers[i]
        /\ \A i \in DOMAIN answers' \ DOMAIN answers :
             answers'[i].attempt_id = a /\ answers'[i].question_id = q

C22_Reads(p) ==
  (req'[p] # req[p] /\ req'[p].op = "answer" /\ req[p].pc # "answer_write") =>
    store' = store

C22_AnswerFrame ==
  [][\A p \in Procs : C22_Write(p) /\ C22_Reads(p)]_vars

\* In the second attempt the second question's answer has been overwritten,
\* with the first question answered too and the first attempt completed with
\* answers of its own.
C22_Witness ==
  \E p \in Procs :
    /\ req[p].op = "answer" /\ req[p].pc = "answer_read"
    /\ req[p].attemptId = Some(2) /\ req[p].questionId = Some(2)
    /\ req[p].existingAnswer # NULL
    /\ AnswersFor(2, 1) # {}
    /\ Completed(1) /\ AnswerIdsOf(1) # {}

AnswerContents(a) ==
  {[question_id |-> answers[i].question_id,
    selected_option_id |-> answers[i].selected_option_id,
    is_correct |-> answers[i].is_correct,
    points_earned |-> answers[i].points_earned] : i \in AnswerIdsOf(a)}

C24_Write(p) ==
  \A a \in DOMAIN attempts, q \in DOMAIN questions :
    (/\ req[p].pc = "answer_write" /\ req'[p].pc = "answer_read"
     /\ req[p].attemptId = Some(a) /\ req[p].questionId = Some(q))
    => LET o == req[p].selectedOptionId
           correct == o # NULL /\ options[Val(o)].is_correct = 1
       IN  AnswerContents(a)' =
             {c \in AnswerContents(a) : c.question_id # q}
             \cup {[question_id |-> q, selected_option_id |-> o,
                    is_correct |-> IF correct THEN 1 ELSE 0,
                    points_earned |-> IF correct THEN questions[q].points ELSE 0]}

C24_NotRefused(p) ==
  (/\ req'[p] # req[p] /\ req'[p].pc = "done" /\ req'[p].op = "answer"
   /\ InProgress(Val(req'[p].attemptId))
   /\ Val(req'[p].questionId) \in DOMAIN questions
   /\ questions[Val(req'[p].questionId)].quiz_id =
        attempts[Val(req'[p].attemptId)].quiz_id
   /\ Val(req'[p].selectedOptionId) \in DOMAIN options
   /\ options[Val(req'[p].selectedOptionId)].question_id = Val(req'[p].questionId))
  => req'[p].res = "ok"

C24_Score(a) ==
  (InProgress(a) /\ Completed(a)') =>
    /\ attempts'[a].points_earned = Some(AttemptEarned(a))
    /\ Val(attempts'[a].score)[1] * QuizWeight(attempts[a].quiz_id) =
         AttemptEarned(a) * 100 * Val(attempts'[a].score)[2]

C24_OrderIndependent ==
  [][/\ \A p \in Procs : C24_Write(p) /\ C24_NotRefused(p)
     /\ \A a \in DOMAIN attempts : C24_Score(a)]_vars

\* The second question was answered (wrongly) before the first (correctly),
\* and the attempt was submitted with 5 of 10 points.
C24_Witness ==
  \E a \in DOMAIN attempts :
    /\ Completed(a) /\ attempts[a].score = Some(<<50, 1>>)
    /\ \E i \in AnswersFor(a, 1), j \in AnswersFor(a, 2) :
         /\ answers[j].answered_at < answers[i].answered_at
         /\ answers[i].selected_option_id = Some(1)
         /\ answers[j].selected_option_id = Some(4)

\* ---------------------------------------------------------------- C25
\* C25: total_points is computed from the questions the quiz has when
\* submitAttempt runs its scoring query, not from those it had when the
\* attempt started: the query returns the weight of the quiz's questions of
\* that moment, added ones included, and the points of the attempt's Answer
\* rows of that moment; the completing UPDATE stores these; and a deleted
\* question leaves no Answer row behind, so it counts in neither sum.
C25_Scored(p) ==
  (req[p].pc = "submit_score" /\ req'[p].pc = "submit_update") =>
    req'[p].scoreData =
      Some([total_points |-> QuizWeight(Val(req[p].attempt).quiz_id),
            points_earned |-> AttemptEarned(Val(req[p].attemptId))])

C25_Stored(p) ==
  \A a \in DOMAIN attempts :
    (req[p].pc = "submit_update" /\ req[p].attemptId = Some(a)
     /\ attempts'[a] # attempts[a]) =>
      /\ attempts'[a].total_points = Some(Val(req[p].scoreData).total_points)
      /\ attempts'[a].points_earned = Some(Val(req[p].scoreData).points_earned)

C25_DeletedQuestionLeavesNoAnswer ==
  \A i \in DOMAIN answers' : answers'[i].question_id \in DOMAIN questions'

C25_LiveTotal ==
  [][/\ \A p \in Procs : C25_Scored(p) /\ C25_Stored(p)
     /\ C25_DeletedQuestionLeavesNoAnswer]_vars

\* qz1 started with two 5-point questions; question 2 is gone, a 1-point
\* question 4 was added, and the attempt completed with 5 of 6 points.
C25_Witness ==
  \E a \in DOMAIN attempts :
    /\ Completed(a)
    /\ attempts[a].total_points = Some(6)
    /\ attempts[a].points_earned = Some(5)
    /\ 2 \notin DOMAIN questions
    /\ 4 \in DOMAIN questions /\ questions[4].quiz_id = attempts[a].quiz_id
    /\ questions[1].points = 5

\* ---------------------------------------------------------------- C26
\* C26: the answer list a successful submitAttempt returns has exactly one
\* entry for every Answer row of the attempt, each carrying a correct option
\* of the row's question, however many options of that question are flagged
\* correct.
C26_OneEntryPerAnswer ==
  \A p \in Procs :
    (req[p].op = "submit" /\ req[p].pc = "done" /\ req[p].res = "ok") =>
      LET a == Val(req[p].attemptId)
          list == Val(req[p].ret)
      IN  /\ {x.id : x \in list} = AnswerIdsOf(a)
          /\ Cardinality(list) = Cardinality(AnswerIdsOf(a))
          /\ \A x \in list :
               /\ x.correct_option_id \in DOMAIN options
               /\ options[x.correct_option_id].question_id =
                    answers[x.id].question_id

\* ---------------------------------------------------------------- C27
\* C27: in every state the catalog operations publishQuiz, unpublishQuiz,
\* updateQuiz, addQuestion and deleteQuestion can reach, every published quiz
\* has at least one question.
C27_PublishedHasQuestion ==
  \A z \in DOMAIN quizzes :
    toBool(quizzes[z].is_published) =>
      \E q \in DOMAIN questions : questions[q].quiz_id = z

\* ---------------------------------------------------------------- C28
\* C28: in every state the catalog operations addQuestion, updateOption and
\* deleteOption can reach, every question has between 2 and 6 options and
\* exactly one of them is flagged correct.
C28_OptionsInvariant ==
  \A q \in DOMAIN questions :
    LET os == {o \in DOMAIN options : options[o].question_id = q}
    IN  /\ Cardinality(os) >= 2 /\ Cardinality(os) <= 6
        /\ Cardinality({o \in os : options[o].is_correct = 1}) = 1

\* ---------------------------------------------------------------- C29
\* C29: however recordAnswer and submitAttempt calls interleave, the
\* points_earned stored on a completed attempt is the sum of points_earned
\* over the Answer rows the attempt has.
C29_StoredPointsMatchRows ==
  \A a \in DOMAIN attempts :
    Completed(a) => attempts[a].points_earned = Some(AttemptEarned(a))

\* ---------------------------------------------------------------- C30
\* C30: however recordAnswer calls interleave with abandonAttempt and with
\* deletions of questions and quizzes, every Answer row references an attempt
\* that exists and a question that exists and belongs to the attempt's quiz.
C30_ReferentialIntegrity ==
  \A i \in DOMAIN answers :
    /\ answers[i].attempt_id \in DOMAIN attempts
    /\ answers[i].question_id \in DOMAIN questions
    /\ questions[answers[i].question_id].quiz_id =
         attempts[answers[i].attempt_id].quiz_id

\* A recordAnswer call passed its checks, the attempt was abandoned under
\* it, and its INSERT was refused: no row was left behind.
C30_Witness ==
  \E p \in Procs :
    /\ req[p].op = "answer" /\ req[p].pc = "done"
    /\ req[p].res = "StorageError"
    /\ Val(req[p].attemptId) \notin DOMAIN attempts
    /\ 3 \in DOMAIN questions
    /\ answers = <<>>
====
